---- MODULE Spec2Model ----
(***************************************************************************)
(* A model of adventure/adv_game.py: the non-repeating RandomItemSelector, *)
(* the SenseClueGenerator built on two selectors, Castle navigation with   *)
(* its door prompt, and the Game loop.                                     *)
(*                                                                         *)
(* A selector is a record [items, used_items] of two sequences.  Python's  *)
(* None is the value None below; an exception leaving a call is recorded   *)
(* by name ("IndexError", "EOFError", ...), NoExc when the call returned.  *)
(***************************************************************************)
EXTENDS Integers, Sequences, FiniteSets, TLC

VARIABLES
    sel,        \* SpecSelector: the RandomItemSelector under test
    op,         \* SpecSelector: the method called last
    ret,        \* SpecSelector: what the last call returned
    available,  \* SpecSelector: the local `available` handed to random.choice
    exc,        \* SpecSelector: the exception the last call raised, or NoExc
    pulls,      \* SpecSelector: the values returned by the current run of
                \*   consecutive pull_random_item calls (its first MaxPulls)
    fresh,      \* SpecSelector: used_items was empty when that run began
    pre,        \* SpecSelector: the selector as it was before the last call
    gen,        \* the one SenseClueGenerator: its clue and sense selectors
    gcall,      \* SpecGenerator: the last call on the generator, a record of
                \*   its name, the two draws and the string returned or printed
    runs,       \* how many times DefaultEncounter.run_encounter has run, up
                \*   to MaxRuns
    castle,     \* the Castle: its room_selector
    pc,         \* where control waits: "new" (play_game not yet called),
                \*   "idle" (no Castle call in progress), "door" (input() in
                \*   select_door), "restart" (input() at the restart prompt),
                \*   "exit" (play_game has ended)
    num_doors,  \* select_door's local num_doors, 0 outside select_door
    door,       \* the door number select_door returned last, 0 before
    room,       \* the room the last next_room drew, None if it drew none
    outcome,    \* what the last completed next_room returned, None before
    raised,     \* the exception that left the last top-level call, or NoExc
    msg,        \* the last message printed by Castle or Game
    inp         \* the last console event input() consumed

selvars == <<sel, op, ret, available, exc, pulls, fresh, pre>>
genvars == <<gen, gcall, runs>>
gamevars == <<castle, pc, num_doors, door, room, outcome, raised, msg, inp>>
vars == <<selvars, genvars, gamevars>>

(* ------------------------------ bounds -------------------------------- *)

\* the longest item list a selector is given
MaxItems == 3

\* the item values a selector under test is filled with
ItemValues == {"A", "B", "C"}

\* the longest list a generator's selector grows to by add_item
MaxCorpus == 2

\* the longest room list a Castle is built from
MaxRooms == 2

\* how many of the six rooms of the default castle are kept
DefaultRooms == 3

\* encounter runs are counted up to this many
MaxRuns == 4

\* how many returns of one run of draws are remembered: one full cycle over
\* pairwise-distinct items, the draw after it, and one more
MaxPulls == Cardinality(ItemValues) + 2

(* ------------------------------ values -------------------------------- *)

None == "None"
NoExc == "none"

RECURSIVE SeqsUpTo(_, _)
\* all sequences over S of length at most n
SeqsUpTo(S, n) ==
    IF n = 0 THEN {<<>>}
    ELSE LET shorter == SeqsUpTo(S, n - 1)
         IN  shorter \cup {Append(q, x) : q \in {r \in shorter : Len(r) = n - 1}, x \in S}

\* Python's `x in seq` (membership by ==)
In(x, seq) == \E i \in 1..Len(seq) : seq[i] = x

Range(seq) == {seq[i] : i \in 1..Len(seq)}

Distinct(seq) == \A i, j \in 1..Len(seq) : seq[i] = seq[j] => i = j

(* ------------------------- RandomItemSelector ------------------------- *)

\* __init__(items): items = list(items) or [], used_items = []
RandomItemSelector(items) == [items |-> items, used_items |-> <<>>]

\* init(items): self.__init__(items)
init(s, items) == RandomItemSelector(items)

\* an add_item that starts a new cycle
add_item_clears_used(s, item) ==
    [items |-> Append(s.items, item), used_items |-> <<>>]

\* add_item(item): self.items.append(item)
add_item(s, item) == [s EXCEPT !.items = Append(@, item)]

\* a reset that re-creates the selector empty
reset_drops_items(s) == [items |-> <<>>, used_items |-> <<>>]

\* reset(): self.used_items.clear()
reset(s) == [s EXCEPT !.used_items = <<>>]

\* exclusion by position: each draw uses up one entry, so an entry stays
\* available while fewer entries of its value were drawn than precede it
Available_by_position(s) ==
    LET idx == {i \in 1..Len(s.items) :
                   Cardinality({j \in 1..Len(s.used_items) : s.used_items[j] = s.items[i]})
                       < Cardinality({j \in 1..i : s.items[j] = s.items[i]})}
        F[i \in 0..Len(s.items)] ==
            IF i = 0 THEN <<>>
            ELSE IF i \in idx THEN Append(F[i - 1], s.items[i]) ELSE F[i - 1]
    IN  F[Len(s.items)]

\* [itm for itm in self.items if itm not in self.used_items]
Available(s) == SelectSeq(s.items, LAMBDA itm : ~In(itm, s.used_items))

\* a draw that forgets the exhaustion reset: random.choice([]) raises
pull_no_exhaustion_reset(s) ==
    IF s.items = <<>>
    THEN {[sel |-> reset(s), ret |-> None, available |-> <<>>, exc |-> NoExc]}
    ELSE LET a == Available(s)
         IN  IF a = <<>>
             THEN {[sel |-> s, ret |-> None, available |-> a, exc |-> "IndexError"]}
             ELSE {[sel |-> [s EXCEPT !.used_items = Append(@, a[i])],
                    ret |-> a[i], available |-> a, exc |-> NoExc] : i \in 1..Len(a)}

\* a draw that chooses among all items, used or not
pull_ignores_used(s) ==
    IF s.items = <<>>
    THEN {[sel |-> reset(s), ret |-> None, available |-> <<>>, exc |-> NoExc]}
    ELSE LET s1 == IF Available(s) = <<>> THEN reset(s) ELSE s
         IN  {[sel |-> [s1 EXCEPT !.used_items = Append(@, s.items[i])],
               ret |-> s.items[i], available |-> s.items, exc |-> NoExc]
                  : i \in 1..Len(s.items)}

\* a draw that keeps used_items when the pool is exhausted
pull_keeps_used(s) ==
    IF s.items = <<>>
    THEN {[sel |-> reset(s), ret |-> None, available |-> <<>>, exc |-> NoExc]}
    ELSE LET a0 == Available(s)
             a  == IF a0 = <<>> THEN s.items ELSE a0
         IN  {[sel |-> [s EXCEPT !.used_items = Append(@, a[i])],
               ret |-> a[i], available |-> a, exc |-> NoExc] : i \in 1..Len(a)}

\* a draw without the empty-pool guard: random.choice([]) raises
pull_no_empty_guard(s) ==
    LET a0 == Available(s)
        s1 == IF a0 = <<>> THEN reset(s) ELSE s
        a  == IF a0 = <<>> THEN s.items ELSE a0
    IN  IF a = <<>>
        THEN {[sel |-> s1, ret |-> None, available |-> a, exc |-> "IndexError"]}
        ELSE {[sel |-> [s1 EXCEPT !.used_items = Append(@, a[i])],
               ret |-> a[i], available |-> a, exc |-> NoExc] : i \in 1..Len(a)}

\* pull_random_item(): the set of outcomes, one per resolution of
\* random.choice; each is the selector afterwards, the value returned, the
\* list the choice was made from and the exception raised
pull_random_item(s) ==
    IF s.items = <<>>
    THEN {[sel |-> reset(s), ret |-> None, available |-> <<>>, exc |-> NoExc]}
    ELSE LET a0 == Available(s)
             s1 == IF a0 = <<>> THEN reset(s) ELSE s
             a  == IF a0 = <<>> THEN s.items ELSE a0
         IN  {[sel |-> [s1 EXCEPT !.used_items = Append(@, a[i])],
               ret |-> a[i], available |-> a, exc |-> NoExc] : i \in 1..Len(a)}


(* -------------------------- SenseClueGenerator ------------------------- *)

\* Python truthiness of a draw: None and the empty string are falsy
Truthy(v) == v # None /\ v # ""

\* the module-level lists `clues` and `sense_exp`, each text standing for
\* itself: two of the ten clues and two of the twelve sensory experiences
clues == <<"clue1", "clue2">>
sense_exp == <<"sense1", "sense2">>

\* __new__: the single instance, its selectors built from two lists
SenseClueGenerator(cl, se) ==
    [clue_selector |-> RandomItemSelector(cl),
     sense_selector |-> RandomItemSelector(se)]

\* clue = clue_selector.pull_random_item(); sense = sense_selector.
\* pull_random_item(): every pair of outcomes, as the generator afterwards
\* and the two values drawn
DrawBoth(g) ==
    {[gen |-> [clue_selector |-> c.sel, sense_selector |-> s.sel],
      clue |-> c.ret, sense |-> s.ret]
        : c \in pull_random_item(g.clue_selector),
          s \in pull_random_item(g.sense_selector)}

\* the string get_senseclue builds from its two draws
Compose(clue, sense) ==
    IF Truthy(clue) /\ Truthy(sense) THEN clue \o " " \o sense
    ELSE IF Truthy(clue) THEN clue
    ELSE IF Truthy(sense) THEN sense
    ELSE ""

\* get_senseclue(): one outcome per resolution of the two draws
get_senseclue(g) ==
    {[gen |-> d.gen, clue |-> d.clue, sense |-> d.sense,
      out |-> Compose(d.clue, d.sense)] : d \in DrawBoth(g)}

\* a default encounter that draws from a generator of its own
run_encounter_own_generator(g) ==
    {[gen |-> g, clue |-> d.clue, sense |-> d.sense,
      out |-> Compose(d.clue, d.sense),
      outcome |-> "CONTINUE"] : d \in DrawBoth(SenseClueGenerator(clues, sense_exp))}

\* a default encounter that ends the game
run_encounter_ends(g) ==
    {[gen |-> d.gen, clue |-> d.clue, sense |-> d.sense,
      out |-> Compose(d.clue, d.sense),
      outcome |-> "END"] : d \in DrawBoth(g)}

\* DefaultEncounter.run_encounter(): the generator has no attribute
\* pull_random_item, so the fallback draws from the two selectors; the
\* output is printed and CONTINUE returned
run_encounter(g) ==
    {[gen |-> d.gen, clue |-> d.clue, sense |-> d.sense,
      out |-> IF Truthy(d.clue) /\ Truthy(d.sense)
              THEN d.clue \o " " \o d.sense
              ELSE IF Truthy(d.clue) THEN d.clue
              ELSE IF Truthy(d.sense) THEN d.sense
              ELSE "",
      outcome |-> "CONTINUE"] : d \in DrawBoth(g)}

(* ------------------------------- console ------------------------------- *)

\* what input() yields: a line of characters, or an exception
Line(l) == [kind |-> "line", text |-> l]
EndOfInput == [kind |-> "eof", text |-> <<>>]
Interrupt == [kind |-> "interrupt", text |-> <<>>]
NoInput == [kind |-> "none", text |-> <<>>]

Whitespace == {" ", "\t"}
Digits == <<"0", "1", "2", "3", "4", "5", "6", "7", "8", "9">>

RECURSIVE LStrip(_)
LStrip(l) == IF l # <<>> /\ Head(l) \in Whitespace THEN LStrip(Tail(l)) ELSE l

RECURSIVE RStrip(_)
RStrip(l) ==
    IF l # <<>> /\ l[Len(l)] \in Whitespace THEN RStrip(SubSeq(l, 1, Len(l) - 1)) ELSE l

\* str.strip()
Strip(l) == RStrip(LStrip(l))

\* str.lower(), on the letters the prompts are answered with
LowerChar(c) ==
    CASE c = "Y" -> "y" [] c = "E" -> "e" [] c = "S" -> "s"
      [] c = "N" -> "n" [] c = "O" -> "o" [] c = "M" -> "m"
      [] OTHER -> c

Lower(l) == [i \in 1..Len(l) |-> LowerChar(l[i])]

DigitValue(c) == (CHOOSE i \in 1..10 : Digits[i] = c) - 1

RECURSIVE DecimalValue(_)
DecimalValue(ds) ==
    IF ds = <<>> THEN 0
    ELSE 10 * DecimalValue(SubSeq(ds, 1, Len(ds) - 1)) + DigitValue(ds[Len(ds)])

\* int(s): an optional sign and one or more decimal digits, surrounding
\* whitespace ignored; anything else raises ValueError (ok = FALSE)
ParseInt(l) ==
    LET s == Strip(l)
        signed == s # <<>> /\ Head(s) \in {"+", "-"}
        ds == IF signed THEN Tail(s) ELSE s
        ok == ds # <<>> /\ \A i \in 1..Len(ds) : In(ds[i], Digits)
    IN  [ok |-> ok,
         val |-> IF ~ok THEN 0
                 ELSE IF signed /\ Head(s) = "-" THEN 0 - DecimalValue(ds)
                 ELSE DecimalValue(ds)]

\* the console events tried at the door prompt
DoorEvents ==
    {Line(<<"1">>), Line(<<"4">>), Line(<<" ", "3", " ">>), Line(<<"0">>),
     Line(<<"5">>), Line(<<"-", "1">>), Line(<<"x">>), Line(<<>>),
     EndOfInput, Interrupt}

\* the console events tried at the restart prompt
RestartEvents ==
    {Line(<<"Y">>), Line(<<"y", "e", "s">>), Line(<<"n">>),
     Line(<<" ", "N", "o", " ">>), Line(<<"m">>), Line(<<>>),
     EndOfInput, Interrupt}

(* ----------------------------- Room, Castle ---------------------------- *)

\* the Room objects a castle is built from, by name, and what the encounter
\* of each does: "Default" is DefaultEncounter (as in the module-level
\* `rooms`), the others are Encounter subclasses whose run_encounter
\* returns CONTINUE, END, or a value that is neither
EncounterOf ==
    [ThroneRoom |-> "Default", Armory |-> "Default", Library |-> "Default",
     GreatHall |-> "Default", Solar |-> "Default", Dungeon |-> "Default",
     ContinueRoom |-> "CONTINUE", EndRoom |-> "END", OtherRoom |-> "OTHER"]

\* the rooms the castles of Spec and SpecCastle are built from
RoomNames == {"Armory", "ContinueRoom", "EndRoom", "OtherRoom"}

\* the module-level `rooms`, cut to its first DefaultRooms entries
rooms ==
    SubSeq(<<"ThroneRoom", "Armory", "Library", "GreatHall", "Solar", "Dungeon">>,
           1, DefaultRooms)

\* Room.visit_room(): self.encounter.run_encounter()
visit_room(r, g) ==
    IF EncounterOf[r] = "Default"
    THEN {[gen |-> o.gen, outcome |-> o.outcome] : o \in run_encounter(g)}
    ELSE {[gen |-> g, outcome |-> EncounterOf[r]]}

\* Castle.__init__(rooms)
Castle(rooms_list) == [room_selector |-> RandomItemSelector(rooms_list)]

\* a reset that rebuilds the castle without rooms
castle_reset_drops_rooms(c) == [room_selector |-> RandomItemSelector(<<>>)]

\* Castle.reset()
castle_reset(c) == [c EXCEPT !.room_selector = reset(@)]

\* a range test that starts at 0
select_door_accepts_zero(nd, ev) ==
    IF ev.kind = "eof"
    THEN [kind |-> "raise", choice |-> 0, exc |-> "EOFError", msg |-> "doors"]
    ELSE IF ev.kind = "interrupt"
    THEN [kind |-> "raise", choice |-> 0, exc |-> "KeyboardInterrupt", msg |-> "doors"]
    ELSE LET p == ParseInt(ev.text)
         IN  IF ~p.ok
             THEN [kind |-> "retry", choice |-> 0, exc |-> NoExc, msg |-> "invalid input"]
             ELSE IF 0 <= p.val /\ p.val <= nd
             THEN [kind |-> "return", choice |-> p.val, exc |-> NoExc, msg |-> "open door"]
             ELSE [kind |-> "retry", choice |-> 0, exc |-> NoExc, msg |-> "invalid selection"]

\* an input() whose ValueError is not caught
select_door_uncaught(nd, ev) ==
    IF ev.kind = "eof"
    THEN [kind |-> "raise", choice |-> 0, exc |-> "EOFError", msg |-> "doors"]
    ELSE IF ev.kind = "interrupt"
    THEN [kind |-> "raise", choice |-> 0, exc |-> "KeyboardInterrupt", msg |-> "doors"]
    ELSE LET p == ParseInt(ev.text)
         IN  IF ~p.ok
             THEN [kind |-> "raise", choice |-> 0, exc |-> "ValueError", msg |-> "doors"]
             ELSE IF 1 <= p.val /\ p.val <= nd
             THEN [kind |-> "return", choice |-> p.val, exc |-> NoExc, msg |-> "open door"]
             ELSE [kind |-> "retry", choice |-> 0, exc |-> NoExc, msg |-> "invalid selection"]

\* a prompt that also swallows the end of input and re-prompts
select_door_swallows_eof(nd, ev) ==
    IF ev.kind = "eof"
    THEN [kind |-> "retry", choice |-> 0, exc |-> NoExc, msg |-> "invalid input"]
    ELSE IF ev.kind = "interrupt"
    THEN [kind |-> "raise", choice |-> 0, exc |-> "KeyboardInterrupt", msg |-> "doors"]
    ELSE LET p == ParseInt(ev.text)
         IN  IF ~p.ok
             THEN [kind |-> "retry", choice |-> 0, exc |-> NoExc, msg |-> "invalid input"]
             ELSE IF 1 <= p.val /\ p.val <= nd
             THEN [kind |-> "return", choice |-> p.val, exc |-> NoExc, msg |-> "open door"]
             ELSE [kind |-> "retry", choice |-> 0, exc |-> NoExc, msg |-> "invalid selection"]

\* one pass of select_door's `while True` body on console event ev with nd
\* doors: return the choice, print a rejection and go round again, or let
\* an exception that is not a ValueError leave select_door
select_door(nd, ev) ==
    IF ev.kind = "eof"
    THEN [kind |-> "raise", choice |-> 0, exc |-> "EOFError", msg |-> "doors"]
    ELSE IF ev.kind = "interrupt"
    THEN [kind |-> "raise", choice |-> 0, exc |-> "KeyboardInterrupt", msg |-> "doors"]
    ELSE LET p == ParseInt(ev.text)
         IN  IF ~p.ok
             THEN [kind |-> "retry", choice |-> 0, exc |-> NoExc, msg |-> "invalid input"]
             ELSE IF 1 <= p.val /\ p.val <= nd
             THEN [kind |-> "return", choice |-> p.val, exc |-> NoExc, msg |-> "open door"]
             ELSE [kind |-> "retry", choice |-> 0, exc |-> NoExc, msg |-> "invalid selection"]

\* next_room() from the draw on: pull a room; none gives a reset and END,
\* otherwise the room is announced and visited and its outcome returned
next_room(c, g) ==
    UNION {IF o.ret = None
           THEN {[castle |-> [room_selector |-> reset(o.sel)], gen |-> g,
                  room |-> None, outcome |-> "END", msg |-> "no rooms"]}
           ELSE {[castle |-> [room_selector |-> o.sel], gen |-> v.gen,
                  room |-> o.ret, outcome |-> v.outcome, msg |-> "enter room"]
                     : v \in visit_room(o.ret, g)}
             : o \in pull_random_item(c.room_selector)}

\* a next_room that enters the room the door number points at
next_room_by_door(c, g, d) ==
    {o \in next_room(c, g) :
        o.room = None
        \/ o.room = c.room_selector.items[((d - 1) % Len(c.room_selector.items)) + 1]}

\* next_room() once select_door has returned d: `door` is assigned and
\* never read
next_room_after_door(c, g, d) == next_room(c, g)

\* random.randint(2, 4)
DoorCounts == 2..4


(* --------------------------------- Game -------------------------------- *)

\* an except clause that names KeyboardInterrupt alone
catches_interrupt_only(e) == e = "KeyboardInterrupt"

\* play_game: `except (KeyboardInterrupt, EOFError)`
play_game_catches(e) == e \in {"KeyboardInterrupt", "EOFError"}

\* a game loop that takes END as the end of the program
dispatch_end_exits(o) ==
    IF o = "END" THEN [pc |-> "exit", reset |-> TRUE, msg |-> "game over"]
    ELSE IF o = "CONTINUE" THEN [pc |-> "door", reset |-> FALSE, msg |-> "doors"]
    ELSE [pc |-> "exit", reset |-> FALSE, msg |-> "uncertain end"]

\* a dispatch that goes to the restart prompt without castle.reset()
dispatch_without_reset(o) ==
    IF o = "END" THEN [pc |-> "restart", reset |-> FALSE, msg |-> "game over"]
    ELSE IF o = "CONTINUE" THEN [pc |-> "door", reset |-> FALSE, msg |-> "doors"]
    ELSE [pc |-> "exit", reset |-> FALSE, msg |-> "uncertain end"]

\* play_game's dispatch on what next_room returned: where the loop goes
\* next, whether castle.reset() is called, and what is printed
play_game_dispatch(o) ==
    IF o = "END" THEN [pc |-> "restart", reset |-> TRUE, msg |-> "game over"]
    ELSE IF o = "CONTINUE" THEN [pc |-> "door", reset |-> FALSE, msg |-> "doors"]
    ELSE [pc |-> "exit", reset |-> FALSE, msg |-> "uncertain end"]

\* a restart prompt that compares the answer without lower()
restart_prompt_case_sensitive(ev) ==
    IF ev.kind = "eof" THEN [kind |-> "raise", exc |-> "EOFError"]
    ELSE IF ev.kind = "interrupt" THEN [kind |-> "raise", exc |-> "KeyboardInterrupt"]
    ELSE LET choice == Strip(ev.text)
         IN  IF choice \in {<<"y">>, <<"y", "e", "s">>}
             THEN [kind |-> "yes", exc |-> NoExc]
             ELSE IF choice \in {<<"n">>, <<"n", "o">>}
             THEN [kind |-> "no", exc |-> NoExc]
             ELSE [kind |-> "retry", exc |-> NoExc]

\* one pass of the restart prompt's `while True` body on console event ev
restart_prompt(ev) ==
    IF ev.kind = "eof" THEN [kind |-> "raise", exc |-> "EOFError"]
    ELSE IF ev.kind = "interrupt" THEN [kind |-> "raise", exc |-> "KeyboardInterrupt"]
    ELSE LET choice == Lower(Strip(ev.text))
         IN  IF choice \in {<<"y">>, <<"y", "e", "s">>}
             THEN [kind |-> "yes", exc |-> NoExc]
             ELSE IF choice \in {<<"n">>, <<"n", "o">>}
             THEN [kind |-> "no", exc |-> NoExc]
             ELSE [kind |-> "retry", exc |-> NoExc]

(* --------------------------- initial values ---------------------------- *)

\* the texts add_item puts into the generator's selectors
ClueTexts == Range(clues) \cup {""}
SenseTexts == Range(sense_exp) \cup {""}

NoCall == [name |-> "new", clue |-> None, sense |-> None, out |-> None]

\* the count of encounter runs after one more
CountRun == IF runs < MaxRuns THEN runs + 1 ELSE runs

\* the count after next_room drew room r: visit_room runs a DefaultEncounter
\* when r has one
RunsAfter(r) ==
    IF r # None /\ EncounterOf[r] = "Default" THEN CountRun ELSE runs

InitGenVars ==
    /\ gen = SenseClueGenerator(clues, sense_exp)
    /\ gcall = NoCall
    /\ runs = 0

\* no selector is under test outside SpecSelector
InitSelVars ==
    /\ sel = RandomItemSelector(<<>>)
    /\ op = "new"
    /\ ret = None
    /\ available = <<>>
    /\ exc = NoExc
    /\ pulls = <<>>
    /\ fresh = TRUE
    /\ pre = sel

InitGameVars(rooms_list, at) ==
    /\ castle = Castle(rooms_list)
    /\ pc = at
    /\ num_doors = 0
    /\ door = 0
    /\ room = None
    /\ outcome = None
    /\ raised = NoExc
    /\ msg = "none"
    /\ inp = NoInput

(* ---------------- SpecGenerator: calls on the generator ---------------- *)

\* generator.clue_selector.init(items)
GenClueInit ==
    \E items \in SeqsUpTo(ClueTexts, 1) :
        /\ gen' = [gen EXCEPT !.clue_selector = init(@, items)]
        /\ gcall' = [NoCall EXCEPT !.name = "init"]
        /\ runs' = runs
        /\ UNCHANGED <<selvars, gamevars>>

\* generator.sense_selector.init(items)
GenSenseInit ==
    \E items \in SeqsUpTo(SenseTexts, 1) :
        /\ gen' = [gen EXCEPT !.sense_selector = init(@, items)]
        /\ gcall' = [NoCall EXCEPT !.name = "init"]
        /\ runs' = runs
        /\ UNCHANGED <<selvars, gamevars>>

\* generator.clue_selector.add_item(item)
GenClueAdd ==
    \E item \in ClueTexts :
        /\ Len(gen.clue_selector.items) < MaxCorpus
        /\ gen' = [gen EXCEPT !.clue_selector = add_item(@, item)]
        /\ gcall' = [NoCall EXCEPT !.name = "add_item"]
        /\ runs' = runs
        /\ UNCHANGED <<selvars, gamevars>>

\* generator.sense_selector.add_item(item)
GenSenseAdd ==
    \E item \in SenseTexts :
        /\ Len(gen.sense_selector.items) < MaxCorpus
        /\ gen' = [gen EXCEPT !.sense_selector = add_item(@, item)]
        /\ gcall' = [NoCall EXCEPT !.name = "add_item"]
        /\ runs' = runs
        /\ UNCHANGED <<selvars, gamevars>>

\* generator.get_senseclue()
GenGetSenseclue ==
    \E o \in get_senseclue(gen) :
        /\ gen' = o.gen
        /\ gcall' = [name |-> "get_senseclue",
                     clue |-> o.clue, sense |-> o.sense, out |-> o.out]
        /\ runs' = runs
        /\ UNCHANGED <<selvars, gamevars>>

\* DefaultEncounter().run_encounter()
GenRunEncounter ==
    \E o \in run_encounter(gen) :
        /\ gen' = o.gen
        /\ gcall' = [name |-> "run_encounter",
                     clue |-> o.clue, sense |-> o.sense, out |-> o.out]
        /\ runs' = CountRun
        /\ UNCHANGED <<selvars, gamevars>>

InitGenerator ==
    /\ InitGenVars
    /\ InitSelVars
    /\ InitGameVars(<<>>, "idle")

NextGenerator ==
    \/ GenClueInit
    \/ GenSenseInit
    \/ GenClueAdd
    \/ GenSenseAdd
    \/ GenGetSenseclue
    \/ GenRunEncounter

SpecGenerator == InitGenerator /\ [][NextGenerator]_vars


(* ------------- SpecCastle: next_room and reset called directly --------- *)

InitCastle ==
    /\ InitSelVars
    /\ InitGenVars
    /\ \E rooms_list \in SeqsUpTo(RoomNames, MaxRooms) : InitGameVars(rooms_list, "idle")

\* castle.next_room() is called: select_door picks the door count and
\* waits at its prompt
CastleNextRoom ==
    /\ pc = "idle"
    /\ \E n \in DoorCounts : num_doors' = n
    /\ pc' = "door"
    /\ outcome' = None
    /\ raised' = NoExc
    /\ room' = None
    /\ door' = 0
    /\ msg' = "doors"
    /\ inp' = NoInput
    /\ UNCHANGED <<castle, selvars, genvars>>

\* a console event at the door prompt is rejected: the prompt is repeated
CastleDoorRetry ==
    \E ev \in DoorEvents :
        LET d == select_door(num_doors, ev)
        IN  /\ pc = "door"
            /\ d.kind = "retry"
            /\ inp' = ev
            /\ msg' = d.msg
            /\ UNCHANGED <<castle, pc, num_doors, door, room, outcome, raised,
                           selvars, genvars>>

\* the door prompt raises: the exception leaves select_door and next_room
CastleDoorRaise ==
    \E ev \in DoorEvents :
        LET d == select_door(num_doors, ev)
        IN  /\ pc = "door"
            /\ d.kind = "raise"
            /\ inp' = ev
            /\ raised' = d.exc
            /\ pc' = "idle"
            /\ num_doors' = 0
            /\ UNCHANGED <<castle, door, room, outcome, msg, selvars, genvars>>

\* what next_room called directly can end in when console event ev is typed
\* at the door prompt: nothing unless select_door accepts ev, otherwise one
\* result per resolution of the random choices
CastleDoorResults(ev) ==
    LET d == select_door(num_doors, ev)
    IN  IF d.kind # "return" THEN {}
        ELSE {[castle |-> o.castle, gen |-> o.gen, room |-> o.room,
               outcome |-> o.outcome, msg |-> o.msg, pc |-> "idle"]
                  : o \in next_room_after_door(castle, gen, d.choice)}

\* a valid door number: next_room draws and visits a room and returns
CastleDoorOpen ==
    \E ev \in DoorEvents :
        \E r \in CastleDoorResults(ev) :
            /\ pc = "door"
            /\ castle' = r.castle
            /\ gen' = r.gen
            /\ runs' = RunsAfter(r.room)
            /\ room' = r.room
            /\ outcome' = r.outcome
            /\ msg' = r.msg
            /\ pc' = r.pc
            /\ inp' = ev
            /\ door' = select_door(num_doors, ev).choice
            /\ num_doors' = 0
            /\ UNCHANGED <<raised, gcall, selvars>>

\* castle.reset() is called
CastleReset ==
    /\ pc = "idle"
    /\ castle' = castle_reset(castle)
    /\ msg' = "selector reset"
    /\ UNCHANGED <<pc, num_doors, door, room, outcome, raised, inp,
                   selvars, genvars>>

NextCastle ==
    \/ CastleNextRoom
    \/ CastleDoorRetry
    \/ CastleDoorRaise
    \/ CastleDoorOpen
    \/ CastleReset

SpecCastle == InitCastle /\ [][NextCastle]_vars


(* ------------------- Spec: Game(rooms).play_game() --------------------- *)

Init ==
    /\ InitSelVars
    /\ InitGenVars
    /\ \E rooms_list \in SeqsUpTo(RoomNames, MaxRooms) : InitGameVars(rooms_list, "new")

\* next_room() is entered from the game loop: select_door picks the door
\* count and waits at its prompt
EnterSelectDoor ==
    /\ pc' = "door"
    /\ \E n \in DoorCounts : num_doors' = n

\* an exception reaches play_game's try: caught, it ends the game with the
\* farewell; otherwise it leaves play_game
GameException(e) ==
    /\ pc' = "exit"
    /\ num_doors' = 0
    /\ raised' = IF play_game_catches(e) THEN NoExc ELSE e
    /\ msg' = IF play_game_catches(e) THEN "adventure paused" ELSE msg

\* play_game() is called: the welcome is printed and the loop entered
GamePlay ==
    /\ pc = "new"
    /\ EnterSelectDoor
    /\ msg' = "doors"
    /\ UNCHANGED <<castle, door, room, outcome, raised, inp, selvars, genvars>>

\* a console event at the door prompt is rejected: the prompt is repeated
GameDoorRetry ==
    \E ev \in DoorEvents :
        LET d == select_door(num_doors, ev)
        IN  /\ pc = "door"
            /\ d.kind = "retry"
            /\ inp' = ev
            /\ msg' = d.msg
            /\ UNCHANGED <<castle, pc, num_doors, door, room, outcome, raised,
                           selvars, genvars>>

\* the door prompt raises
GameDoorRaise ==
    \E ev \in DoorEvents :
        LET d == select_door(num_doors, ev)
        IN  /\ pc = "door"
            /\ d.kind = "raise"
            /\ inp' = ev
            /\ GameException(d.exc)
            /\ UNCHANGED <<castle, door, room, outcome, selvars, genvars>>

\* what one turn of the game loop can end in when console event ev is typed
\* at the door prompt: nothing unless select_door accepts ev, otherwise
\* next_room's result with play_game's branch on the outcome applied
GameDoorResults(ev) ==
    LET d == select_door(num_doors, ev)
    IN  IF d.kind # "return" THEN {}
        ELSE {[castle |-> IF play_game_dispatch(o.outcome).reset
                          THEN castle_reset(o.castle) ELSE o.castle,
               gen |-> o.gen, room |-> o.room, outcome |-> o.outcome,
               msg |-> play_game_dispatch(o.outcome).msg,
               pc |-> play_game_dispatch(o.outcome).pc]
                  : o \in next_room_after_door(castle, gen, d.choice)}

\* a valid door number: next_room draws and visits a room, and play_game
\* acts on the outcome
GameDoorOpen ==
    \E ev \in DoorEvents :
        \E r \in GameDoorResults(ev) :
            /\ pc = "door"
            /\ inp' = ev
            /\ door' = select_door(num_doors, ev).choice
            /\ castle' = r.castle
            /\ gen' = r.gen
            /\ runs' = RunsAfter(r.room)
            /\ room' = r.room
            /\ outcome' = r.outcome
            /\ msg' = r.msg
            /\ IF r.pc = "door"
               THEN EnterSelectDoor
               ELSE pc' = r.pc /\ num_doors' = 0
            /\ UNCHANGED <<raised, gcall, selvars>>

\* an answer at the restart prompt that is neither yes nor no
GameRestartRetry ==
    \E ev \in RestartEvents :
        /\ pc = "restart"
        /\ restart_prompt(ev).kind = "retry"
        /\ inp' = ev
        /\ msg' = "please respond"
        /\ UNCHANGED <<castle, pc, num_doors, door, room, outcome, raised,
                       selvars, genvars>>

\* yes: the inner loop is left and the game loop calls next_room again
GameRestartYes ==
    \E ev \in RestartEvents :
        /\ pc = "restart"
        /\ restart_prompt(ev).kind = "yes"
        /\ inp' = ev
        /\ msg' = "doors"
        /\ EnterSelectDoor
        /\ UNCHANGED <<castle, door, room, outcome, raised, selvars, genvars>>

\* no: the farewell is printed and play_game returns
GameRestartNo ==
    \E ev \in RestartEvents :
        /\ pc = "restart"
        /\ restart_prompt(ev).kind = "no"
        /\ inp' = ev
        /\ msg' = "farewell"
        /\ pc' = "exit"
        /\ UNCHANGED <<castle, num_doors, door, room, outcome, raised,
                       selvars, genvars>>

\* the restart prompt raises
GameRestartRaise ==
    \E ev \in RestartEvents :
        /\ pc = "restart"
        /\ restart_prompt(ev).kind = "raise"
        /\ inp' = ev
        /\ GameException(restart_prompt(ev).exc)
        /\ UNCHANGED <<castle, door, room, outcome, selvars, genvars>>

Next ==
    \/ GamePlay
    \/ GameDoorRetry
    \/ GameDoorRaise
    \/ GameDoorOpen
    \/ GameRestartRetry
    \/ GameRestartYes
    \/ GameRestartNo
    \/ GameRestartRaise

Spec == Init /\ [][Next]_vars

(* ------------- SpecDefault: the program as run, Game(rooms) ------------ *)

\* game = Game(rooms) with the module-level rooms
InitDefault ==
    /\ InitSelVars
    /\ InitGenVars
    /\ InitGameVars(rooms, "new")

\* play_game() on the default castle; the restart prompt's steps are those
\* of Spec and wait for pc = "restart"
NextDefault ==
    \/ GamePlay
    \/ GameDoorRetry
    \/ GameDoorRaise
    \/ GameDoorOpen

SpecDefault == InitDefault /\ [][NextDefault]_vars

(* ------ SpecDefaultCastle: Castle() over the module-level rooms -------- *)

\* Castle(None) falls back to the module-level rooms
InitDefaultCastle ==
    /\ InitSelVars
    /\ InitGenVars
    /\ InitGameVars(rooms, "idle")

\* next_room() and reset() called on it in any order
SpecDefaultCastle == InitDefaultCastle /\ [][NextCastle]_vars

(* ----------------- SpecSelector: the selector's own API ---------------- *)

\* a run of draws ends at any other call, which has no local `available`
NoRun(s) ==
    /\ available' = <<>>
    /\ pulls' = <<>>
    /\ fresh' = (s.used_items = <<>>)

InitSelector ==
    /\ \E items \in SeqsUpTo(ItemValues, MaxItems) : sel = RandomItemSelector(items)
    /\ op = "new"
    /\ ret = None
    /\ available = <<>>
    /\ exc = NoExc
    /\ pulls = <<>>
    /\ fresh = TRUE
    /\ pre = sel
    /\ InitGenVars
    /\ InitGameVars(<<>>, "idle")

\* sel.init(items); add_item can then grow the list to MaxItems
SelInit ==
    \E items \in SeqsUpTo(ItemValues, MaxItems - 1) :
        /\ sel' = init(sel, items)
        /\ pre' = sel
        /\ op' = "init"
        /\ ret' = None
        /\ exc' = NoExc
        /\ NoRun(sel')
    /\ UNCHANGED <<genvars, gamevars>>
        /\ UNCHANGED <<genvars, gamevars>>

SelAddItem ==
    \E item \in ItemValues :
        /\ Len(sel.items) < MaxItems
        /\ sel' = add_item(sel, item)
        /\ pre' = sel
        /\ op' = "add_item"
        /\ ret' = None
        /\ exc' = NoExc
        /\ NoRun(sel')
    /\ UNCHANGED <<genvars, gamevars>>
        /\ UNCHANGED <<genvars, gamevars>>

SelReset ==
    /\ sel' = reset(sel)
    /\ pre' = sel
    /\ op' = "reset"
    /\ ret' = None
    /\ exc' = NoExc
    /\ NoRun(sel')
    /\ UNCHANGED <<genvars, gamevars>>

SelPull ==
    \E o \in pull_random_item(sel) :
        /\ sel' = o.sel
        /\ pre' = sel
        /\ op' = "pull"
        /\ ret' = o.ret
        /\ available' = o.available
        /\ exc' = o.exc
        /\ pulls' = IF Len(pulls) < MaxPulls THEN Append(pulls, o.ret) ELSE pulls
        /\ UNCHANGED <<fresh, genvars, gamevars>>

NextSelector == SelInit \/ SelAddItem \/ SelReset \/ SelPull

SpecSelector == InitSelector /\ [][NextSelector]_vars

(* ------------------- claims about RandomItemSelector ------------------- *)

\* the values a draw on s can return, over every resolution of random.choice
PossibleResults(s) == {o.ret : o \in pull_random_item(s)}

\* a run of n consecutive draws that began with used_items empty, over a
\* pool of pairwise-distinct items, with every return of the run remembered
CycleRun(n) ==
    /\ fresh
    /\ op = "pull"
    /\ Distinct(sel.items)
    /\ Len(pulls) = n
    /\ n < MaxPulls

\* C1: from an empty used_items, the first k <= N consecutive draws on N
\* pairwise-distinct items return k different items of the pool without
\* raising, and the N-th draw completes a permutation of the pool.
C1_DrawsArePermutation ==
    \A n \in 1..Len(sel.items) :
        CycleRun(n) =>
            /\ exc = NoExc
            /\ Distinct(pulls)
            /\ Range(pulls) \subseteq Range(sel.items)
            /\ sel.used_items = pulls
            /\ (n = Len(sel.items) => Range(pulls) = Range(sel.items))

C1_Witness ==
    /\ CycleRun(3)
    /\ Len(sel.items) = 3
    /\ Range(pulls) = ItemValues

\* C2: the draw after the N-th chooses from the whole pool (every item is a
\* possible result, the N-th draw's item included) and leaves used_items
\* holding exactly the item it returned.
C2_DrawAfterExhaustion ==
    /\ \A n \in 1..Len(sel.items) :
          (CycleRun(n) /\ n = Len(sel.items)) =>
              /\ Available(sel) = <<>>
              /\ PossibleResults(sel) = Range(sel.items)
              /\ \A x \in Range(sel.items) : ENABLED (SelPull /\ ret' = x)
    /\ (sel.items # <<>> /\ CycleRun(Len(sel.items) + 1)) =>
          /\ exc = NoExc
          /\ available = sel.items
          /\ ret = pulls[Len(pulls)]
          /\ In(ret, sel.items)
          /\ sel.used_items = <<ret>>

\* the draw after exhaustion repeats the item drawn just before it
C2_Witness ==
    /\ CycleRun(4)
    /\ Len(sel.items) = 3
    /\ pulls[4] = pulls[3]
    /\ sel.used_items = <<pulls[3]>>

\* C3: a draw on an empty pool returns None without raising and leaves
\* items and used_items empty, at every repetition.
C3_EmptyPoolDraw ==
    (op = "pull" /\ pre.items = <<>>) =>
        /\ ret = None
        /\ exc = NoExc
        /\ sel.items = <<>>
        /\ sel.used_items = <<>>
        /\ available = <<>>

\* the second of two draws in a row on an empty pool
C3_Witness ==
    /\ op = "pull"
    /\ pre.items = <<>>
    /\ Len(pulls) = 2
    /\ ret = None

\* C4: reset empties used_items and keeps items as they were, so the next
\* draw can return every item of the pool.
C4_ResetFrame ==
    op = "reset" =>
        /\ exc = NoExc
        /\ sel.used_items = <<>>
        /\ sel.items = pre.items
        /\ Available(sel) = sel.items
        /\ (sel.items # <<>> => PossibleResults(sel) = Range(sel.items))

\* a reset in the middle of a cycle, with some items used and some not
C4_Witness ==
    /\ op = "reset"
    /\ Len(sel.items) = 3
    /\ pre.used_items # <<>>
    /\ Len(pre.used_items) < 3

\* C5: used_items is never longer than items and holds only values of items.
C5_UsedWithinItems ==
    /\ Len(sel.used_items) <= Len(sel.items)
    /\ \A i \in 1..Len(sel.used_items) : In(sel.used_items[i], sel.items)

\* the draw that follows an exhausted cycle over a pool with a repeated value
C5_Witness ==
    /\ op = "pull"
    /\ ~Distinct(sel.items)
    /\ Available(pre) = <<>>
    /\ pre.used_items # <<>>
    /\ sel.used_items = <<ret>>

(* ------------------- claims about SenseClueGenerator ------------------- *)

\* C6: get_senseclue never returns the empty string when the clue pool and
\* the sense pool are both non-empty.
C6_NeverEmptyOutput ==
    (/\ gcall.name = "get_senseclue"
     /\ gen.clue_selector.items # <<>>
     /\ gen.sense_selector.items # <<>>) =>
        gcall.out # ""

\* C7: get_senseclue draws once from each selector and composes by presence:
\* both draws present gives clue + " " + sense, one present gives that item,
\* none present gives the empty string.
C7_ComposeByPresence ==
    gcall.name = "get_senseclue" =>
        /\ (gcall.clue = None <=> gen.clue_selector.items = <<>>)
        /\ (gcall.sense = None <=> gen.sense_selector.items = <<>>)
        /\ (gcall.clue # None =>
              gen.clue_selector.used_items[Len(gen.clue_selector.used_items)] = gcall.clue)
        /\ (gcall.sense # None =>
              gen.sense_selector.used_items[Len(gen.sense_selector.used_items)] = gcall.sense)
        /\ (gcall.clue # None /\ gcall.sense # None =>
              gcall.out = gcall.clue \o " " \o gcall.sense)
        /\ (gcall.clue # None /\ gcall.sense = None => gcall.out = gcall.clue)
        /\ (gcall.clue = None /\ gcall.sense # None => gcall.out = gcall.sense)
        /\ (gcall.clue = None /\ gcall.sense = None => gcall.out = "")

(* ----------------------- claims about Castle, Game --------------------- *)

\* the room pool is non-empty and every room's encounter returns CONTINUE
ContinueOnly ==
    /\ castle.room_selector.items # <<>>
    /\ \A r \in Range(castle.room_selector.items) :
          EncounterOf[r] \in {"Default", "CONTINUE"}

\* a next_room call has ended, by returning or by raising
NextRoomEnded == pc = "idle" /\ inp # NoInput

\* C8: with a non-empty pool of rooms whose encounters return CONTINUE,
\* every next_room call returns CONTINUE and never raises, whatever the
\* door-prompt inputs, ended input included.
C8_NextRoomNeverRaises ==
    ContinueOnly =>
        /\ raised = NoExc
        /\ (NextRoomEnded => outcome = "CONTINUE")

\* C8 as amended: a next_room call that returns returns CONTINUE; rejected
\* door inputs (non-numeric, out of range) never raise; the call raises only
\* when the input ends or is aborted, with EOFError or KeyboardInterrupt,
\* and then no room has been drawn.
C8_ContinueUnlessInputEnds ==
    ContinueOnly =>
        /\ (raised = NoExc /\ NextRoomEnded) =>
              /\ outcome = "CONTINUE"
              /\ inp.kind = "line"
              /\ room # None
        /\ raised # NoExc =>
              /\ pc = "idle"
              /\ inp \in {EndOfInput, Interrupt}
              /\ raised = (IF inp = EndOfInput THEN "EOFError" ELSE "KeyboardInterrupt")
              /\ outcome = None
              /\ room = None
        /\ (pc = "door" /\ inp # NoInput) =>
              /\ inp.kind = "line"
              /\ msg \in {"invalid input", "invalid selection"}

\* after earlier visits, the input ends at the door prompt of a next_room call
C8_Witness ==
    /\ ContinueOnly
    /\ castle.room_selector.used_items # <<>>
    /\ pc = "idle"
    /\ raised = "EOFError"
    /\ inp = EndOfInput

\* C9: an interruption at the door prompt or the restart prompt takes
\* play_game straight to its end: the farewell is printed, no room is drawn,
\* nothing is raised to the caller, and nothing happens afterwards.
C9_InterruptionExits ==
    /\ [][(pc \in {"door", "restart"} /\ inp'.kind \in {"eof", "interrupt"}) =>
             /\ pc' = "exit"
             /\ msg' = "adventure paused"
             /\ raised' = NoExc
             /\ castle' = castle
             /\ gen' = gen
             /\ room' = room
             /\ outcome' = outcome]_vars
    /\ [][pc # "exit"]_vars

\* the input ends at the door prompt that follows a visited room
C9_Witness ==
    /\ pc = "exit"
    /\ inp = EndOfInput
    /\ outcome = "CONTINUE"
    /\ msg = "adventure paused"
    /\ raised = NoExc

\* every room's encounter returns CONTINUE or END (the pool may be empty)
ContinueOrEnd ==
    \A r \in Range(castle.room_selector.items) :
        EncounterOf[r] \in {"Default", "CONTINUE", "END"}

\* C10: whatever the console inputs and the pool of rooms returning
\* CONTINUE or END, no exception leaves play_game: the game is playing (at
\* a door prompt), at the restart prompt, or has ended with a farewell.
C10_NoFaultEscapes ==
    ContinueOrEnd =>
        /\ raised = NoExc
        /\ pc \in {"new", "door", "restart", "exit"}
        /\ (pc = "exit" => msg \in {"farewell", "adventure paused"})
        /\ (pc = "restart" => outcome = "END")

\* an empty pool: END, the restart prompt, a rejected answer, then "no"
C10_Witness ==
    /\ castle.room_selector.items = <<>>
    /\ pc = "exit"
    /\ outcome = "END"
    /\ room = None
    /\ msg = "farewell"
    /\ raised = NoExc

\* a step of the game loop in which select_door accepts the console event
\* and next_room goes on to draw
DoorAccepted == pc = "door" /\ select_door(num_doors, inp').kind = "return"

\* C11: in PLAYING, a CONTINUE outcome keeps the game in PLAYING, and every
\* other outcome (END or any other value) has Castle.reset called and moves
\* the game to the restart prompt.
C11_NonContinueRestarts ==
    [][DoorAccepted =>
          /\ (outcome' = "CONTINUE" => pc' = "door")
          /\ (outcome' # "CONTINUE" =>
                /\ pc' = "restart"
                /\ castle'.room_selector.used_items = <<>>)]_vars

\* C11 as amended: CONTINUE keeps the game in PLAYING with the drawn room
\* still marked used; END has Castle.reset called and moves the game to the
\* restart prompt; any other value ends play_game at once with the
\* "uncertain end" message, without a reset and without a restart prompt.
C11_EndRestartsOtherExits ==
    [][DoorAccepted =>
          /\ raised' = NoExc
          /\ (outcome' = "CONTINUE" =>
                /\ pc' = "door"
                /\ num_doors' \in DoorCounts
                /\ castle'.room_selector.used_items # <<>>)
          /\ (outcome' = "END" =>
                /\ pc' = "restart"
                /\ msg' = "game over"
                /\ castle'.room_selector.used_items = <<>>
                /\ castle'.room_selector.items = castle.room_selector.items)
          /\ (outcome' \notin {"CONTINUE", "END"} =>
                /\ pc' = "exit"
                /\ msg' = "uncertain end"
                /\ castle'.room_selector.used_items # <<>>)]_vars

\* a room whose encounter returns neither CONTINUE nor END has ended the game
C11_Witness ==
    /\ pc = "exit"
    /\ outcome = "OTHER"
    /\ room = "OtherRoom"
    /\ msg = "uncertain end"
    /\ Len(castle.room_selector.used_items) = 2

\* the answers the restart prompt takes for yes and for no, as typed
YesAnswers ==
    {Line(<<"Y">>), Line(<<"y", "e", "s">>)}
NoAnswers ==
    {Line(<<"n">>), Line(<<" ", "N", "o", " ">>)}
OtherAnswers ==
    {Line(<<"m">>), Line(<<>>)}

\* C12: at the restart prompt, y/yes (trimmed, any case) returns the game to
\* PLAYING, n/no ends it with the farewell, and anything else re-prompts
\* with the castle's room selector unchanged, as often as it is given.
C12_RestartAnswers ==
    /\ [][pc = "restart" =>
             /\ (inp' \in YesAnswers =>
                   /\ pc' = "door"
                   /\ num_doors' \in DoorCounts
                   /\ castle' = castle)
             /\ (inp' \in NoAnswers =>
                   /\ pc' = "exit"
                   /\ msg' = "farewell"
                   /\ raised' = NoExc)
             /\ (inp' \in OtherAnswers =>
                   /\ pc' = "restart"
                   /\ msg' = "please respond"
                   /\ castle' = castle
                   /\ gen' = gen)]_vars
    /\ [](pc = "restart" =>
             \A ev \in OtherAnswers : ENABLED (GameRestartRetry /\ inp' = ev))

\* "m" has just been rejected at the restart prompt
C12_Witness ==
    /\ pc = "restart"
    /\ inp = Line(<<"m">>)
    /\ msg = "please respond"
    /\ outcome = "END"

\* the console events select_door accepts with n doors
ValidDoorEvents(n) == {ev \in DoorEvents : select_door(n, ev).kind = "return"}

\* C13: the door number entered has no effect on navigation: from the same
\* state and with the random choices resolved alike, any two valid door
\* numbers lead to the same room, outcome, selector and generator state
\* and to the same continuation of the game loop.
C13_DoorIsCosmetic ==
    pc = "door" =>
        LET results == [ev \in ValidDoorEvents(num_doors) |-> GameDoorResults(ev)]
        IN  \A e1, e2 \in ValidDoorEvents(num_doors) :
                /\ results[e1] # {}
                /\ results[e1] = results[e2]

\* a door prompt with four doors, two rooms to draw from, one of them used
C13_Witness ==
    /\ pc = "door"
    /\ num_doors = 4
    /\ Cardinality(ValidDoorEvents(num_doors)) = 3
    /\ Len(castle.room_selector.items) = 2
    /\ Distinct(castle.room_selector.items)
    /\ Len(castle.room_selector.used_items) = 1
    /\ door = 1

\* C14: in the default configuration (a castle of the module-level rooms,
\* all with a DefaultEncounter) a draw on the room pool never returns
\* "absent", next_room never returns END, and the game never reaches the
\* restart prompt: it is playing, or has exited through an interruption of
\* the input.
C14_DefaultNeverEnds ==
    /\ castle.room_selector.items = rooms
    /\ \A i \in 1..Len(rooms) : EncounterOf[rooms[i]] = "Default"
    /\ pc \in {"new", "door", "exit"}
    /\ outcome \in {None, "CONTINUE"}
    /\ outcome = "CONTINUE" => room \in Range(rooms)
    /\ raised = NoExc
    /\ pc = "door" =>
          /\ \A o \in pull_random_item(castle.room_selector) :
                o.ret \in Range(rooms) /\ o.exc = NoExc
          /\ \A ev \in ValidDoorEvents(num_doors) :
                /\ GameDoorResults(ev) # {}
                /\ \A r \in GameDoorResults(ev) :
                      r.outcome = "CONTINUE" /\ r.pc = "door"
    /\ pc = "exit" =>
          /\ inp.kind \in {"eof", "interrupt"}
          /\ msg = "adventure paused"

\* every room of the default castle has been visited, and the clue pool has
\* started its next cycle
C14_Witness ==
    /\ pc = "door"
    /\ outcome = "CONTINUE"
    /\ Len(castle.room_selector.used_items) = Len(rooms)
    /\ Len(rooms) > Len(clues)
    /\ Len(gen.clue_selector.used_items) = 1

\* a run of n consecutive draws that began with used_items empty, over a
\* pool in which some value occurs more than once
DuplicateRun(n) ==
    /\ fresh
    /\ op = "pull"
    /\ ~Distinct(sel.items)
    /\ Len(pulls) = n
    /\ n < MaxPulls

\* C15: exclusion is by value: an entry whose value is in used_items is not
\* available, however many entries hold that value; so in a pool with
\* equal-valued entries a run of draws from an empty used_items returns
\* each of the D distinct values once, the D-th draw leaves nothing
\* available although entries remain undrawn, and the (D+1)-th draw is the
\* one that clears used_items.
C15_ExclusionByValue ==
    LET D == Cardinality(Range(sel.items))
    IN  /\ \A i \in 1..Len(sel.items) :
              In(sel.items[i], sel.used_items) => ~In(sel.items[i], Available(sel))
        /\ \A n \in 1..(MaxPulls - 1) :
              DuplicateRun(n) =>
                  /\ exc = NoExc
                  /\ n <= D => /\ sel.used_items = pulls
                               /\ Distinct(pulls)
                               /\ Range(available) = Range(sel.items) \ Range(pre.used_items)
                  /\ n < D => Available(sel) # <<>>
                  /\ n = D => /\ Available(sel) = <<>>
                              /\ Range(pulls) = Range(sel.items)
                              /\ Len(pulls) < Len(sel.items)
                  /\ n = D + 1 => /\ pre.used_items = SubSeq(pulls, 1, D)
                                  /\ available = sel.items
                                  /\ sel.used_items = <<ret>>

\* three entries of two values: the third draw of the run cleared used_items
C15_Witness ==
    /\ DuplicateRun(3)
    /\ sel.items = <<"A", "A", "B">>
    /\ pulls[1] = "B"
    /\ sel.used_items = <<"A">>

\* the last call was a draw that emptied used_items before choosing
DrawCleared ==
    /\ op = "pull"
    /\ pre.items # <<>>
    /\ sel.used_items # Append(pre.used_items, ret)

\* C16: under any interleaving of add_item and pull_random_item, a draw
\* clears used_items only when every value in items is in used_items; no
\* value is returned twice between two clearings; an item added with a
\* value not yet used is available, keeps the next draws from clearing
\* until it has been returned, and add_item leaves used_items as it was.
C16_InterleavedAdds ==
    /\ Distinct(sel.used_items)
    /\ DrawCleared =>
          /\ Range(pre.items) \subseteq Range(pre.used_items)
          /\ available = sel.items
          /\ sel.used_items = <<ret>>
    /\ (op = "pull" /\ pre.items # <<>> /\ ~DrawCleared) =>
          /\ ~In(ret, pre.used_items)
          /\ In(ret, pre.items)
          /\ exc = NoExc
    /\ op = "add_item" =>
          /\ sel.used_items = pre.used_items
          /\ Len(sel.items) = Len(pre.items) + 1
          /\ SubSeq(sel.items, 1, Len(pre.items)) = pre.items
          /\ LET item == sel.items[Len(sel.items)]
             IN  ~In(item, sel.used_items) =>
                     /\ In(item, Available(sel))
                     /\ \A o \in pull_random_item(sel) :
                           /\ o.sel.used_items = Append(sel.used_items, o.ret)
                           /\ (o.ret # item => In(item, Available(o.sel)))

\* two items, one of them drawn, then a third value added and drawn next
C16_Witness ==
    /\ op = "pull"
    /\ ~fresh
    /\ Len(pulls) = 1
    /\ Len(sel.items) = 3
    /\ Distinct(sel.items)
    /\ ret = sel.items[3]
    /\ Len(pre.used_items) = 1
    /\ Len(sel.used_items) = 2

\* the castle was built from no rooms
EmptyPool == castle.room_selector.items = <<>>

\* C17: with an empty room pool, next_room returns END only once the door
\* prompt has accepted a number, without raising and with the room
\* selector left empty; play_game resets the castle and reaches the restart
\* prompt, and after "yes" the next next_room call ends in END again.
C17_EmptyPoolEnds ==
    /\ [](EmptyPool =>
            /\ castle.room_selector.used_items = <<>>
            /\ room = None
            /\ outcome \in {None, "END"}
            /\ (outcome = "END" => door \in 1..4)
            /\ (pc = "restart" => outcome = "END" /\ raised = NoExc)
            /\ (raised # NoExc => inp.kind \in {"eof", "interrupt"})
            /\ (pc = "door" =>
                  \A ev \in DoorEvents :
                      /\ ev \notin ValidDoorEvents(num_doors) =>
                            CastleDoorResults(ev) = {} /\ GameDoorResults(ev) = {}
                      /\ ev \in ValidDoorEvents(num_doors) =>
                            /\ CastleDoorResults(ev) =
                                  {[castle |-> castle, gen |-> gen, room |-> None,
                                    outcome |-> "END", msg |-> "no rooms",
                                    pc |-> "idle"]}
                            /\ GameDoorResults(ev) =
                                  {[castle |-> castle, gen |-> gen, room |-> None,
                                    outcome |-> "END", msg |-> "game over",
                                    pc |-> "restart"]}))
    /\ [][EmptyPool =>
            /\ (DoorAccepted =>
                  /\ pc' = "restart"
                  /\ outcome' = "END"
                  /\ raised' = NoExc
                  /\ door' \in 1..num_doors
                  /\ castle' = castle)
            /\ ((pc = "restart" /\ restart_prompt(inp').kind = "yes") =>
                  /\ pc' = "door"
                  /\ num_doors' \in DoorCounts
                  /\ castle' = castle)]_vars

\* the game over an empty castle is back at the door prompt after "yes"
C17_Witness ==
    /\ EmptyPool
    /\ pc = "door"
    /\ outcome = "END"
    /\ door = 4
    /\ inp = Line(<<"y", "e", "s">>)

\* C18: Castle.reset and a game restart clear only the used_items of the
\* castle's room selector: the room pool's items and the used_items of the
\* generator's clue and sense selectors stay as they were, so the clue and
\* sense cycles continue across restarts.
C18_ResetClearsOnlyUsed ==
    /\ [](/\ castle_reset(castle).room_selector.items = castle.room_selector.items
          /\ castle_reset(castle).room_selector.used_items = <<>>
          /\ (pc = "restart" => castle.room_selector.used_items = <<>>))
    /\ [][/\ castle'.room_selector.items = castle.room_selector.items
          /\ ((DoorAccepted /\ outcome' = "END") =>
                /\ castle'.room_selector.used_items = <<>>
                /\ gen' = gen)
          /\ (pc = "restart" =>
                /\ castle' = castle
                /\ gen' = gen
                /\ room' = room)]_vars

\* the game was restarted after a default encounter had run: the room
\* selector starts over, the clue and sense cycles do not
C18_Witness ==
    /\ pc = "door"
    /\ outcome = "END"
    /\ restart_prompt(inp).kind = "yes"
    /\ castle.room_selector.items = <<"Armory", "EndRoom">>
    /\ castle.room_selector.used_items = <<>>
    /\ Len(gen.clue_selector.used_items) = 1
    /\ Len(gen.sense_selector.used_items) = 1

\* console event ev is a line holding a door number between 1 and n
NamesDoor(ev, n) ==
    /\ ev.kind = "line"
    /\ ParseInt(ev.text).ok
    /\ ParseInt(ev.text).val \in 1..n

\* C19: select_door returns only a door number d with 1 <= d <= N for the
\* door count N in 2..4 it chose; a line that is not such a number is
\* rejected with a re-prompt that leaves the room selector as it was; and
\* within next_room no room is drawn and no encounter runs until a door
\* number has been accepted, or at all if the prompt is interrupted.
C19_DoorWithinRange ==
    /\ [](/\ door \in 0..4
          /\ (pc = "door" =>
                /\ num_doors \in 2..4
                /\ room = None
                /\ outcome = None
                /\ \A ev \in DoorEvents :
                      LET d == select_door(num_doors, ev)
                      IN  IF NamesDoor(ev, num_doors)
                          THEN /\ d.kind = "return"
                               /\ d.choice = ParseInt(ev.text).val
                          ELSE IF ev.kind = "line"
                          THEN d.kind = "retry"
                          ELSE d.kind = "raise"))
    /\ [][pc = "door" =>
            IF NamesDoor(inp', num_doors)
            THEN /\ door' = ParseInt(inp'.text).val
                 /\ door' \in 1..num_doors
                 /\ pc' = "idle"
                 /\ raised' = NoExc
            ELSE /\ castle' = castle
                 /\ gen' = gen
                 /\ door' = door
                 /\ room' = None
                 /\ outcome' = None
                 /\ IF inp'.kind = "line"
                    THEN /\ pc' = "door"
                         /\ num_doors' = num_doors
                         /\ msg' \in {"invalid input", "invalid selection"}
                    ELSE /\ pc' = "idle"
                         /\ raised' \in {"EOFError", "KeyboardInterrupt"}]_vars

\* door 3 of four was accepted from a line with blanks around the number,
\* after which a room was drawn
C19_Witness ==
    /\ pc = "idle"
    /\ door = 3
    /\ inp = Line(<<" ", "3", " ">>)
    /\ room # None
    /\ outcome = "CONTINUE"
    /\ castle.room_selector.used_items # <<>>

====
